---- MODULE Spec2Model ----
(***************************************************************************)
(* MCPClientManager (src/utils/mcp_client.py): the registry of MCP         *)
(* servers, the exit stacks of their stdio connections, the tool call      *)
(* history and the event callbacks, driven by asyncio coroutines.  Code    *)
(* between two awaits runs atomically on the event loop, so every action   *)
(* is the segment of one coroutine from one suspension point to the next.  *)
(***************************************************************************)
EXTENDS Integers, Sequences, FiniteSets, Bags, TLC

\* ------------------------------------------------------------------ bounds
\* Operations called in one behaviour.
MaxOps == 3
\* Coroutines suspended at the same time.
MaxTasks == 2
\* Callbacks registered with on_event in one behaviour.
MaxHandlers == 2

\* The timeouts of the awaits of connect_server as auto_connect_servers calls
\* it, and the timeout of the gather of the batch, in seconds.
TransportTimeout == 30
SessionTimeout == 10
InitializeTimeout == 15
ListToolsTimeout == 10
GlobalTimeout == 60

\* Server ids of the configuration file: "s1" is loaded by Init, "s2" only
\* by InitPair.
AllIds == {"s1", "s2"}
\* Tool lists a session may return from list_tools.
ToolLists == {<<>>, <<"t1">>}
\* Tool names a caller may pass to call_tool.
ToolNames == {"t1"}
\* Values of the timeout parameter of call_tool, as an f-string prints them.
Timeouts == {"30.0", "60.0"}
\* The values uuid.uuid4() returns, in the order of the calls: 122 random
\* bits each, never one twice.
UuidOrder == <<"u1", "u2", "u3", "u4">>
\* Descriptors a caller passes to add_server: the required keys only, every
\* key, and one without 'name'.
ServerConfigs ==
    {[name |-> "A", command |-> <<"node">>],
     [name |-> "B", description |-> "d", command |-> <<"python">>, args |-> <<"-m">>,
      env_vars |-> {<<"K", "v">>}, enabled |-> FALSE, auto_connect |-> TRUE,
      category |-> "c"],
     [command |-> <<"node">>]}
\* Descriptors a caller passes to update_server.
UpdateConfigs ==
    {[name |-> "N"],
     [enabled |-> FALSE, env_vars |-> {<<"K", "w">>}]}
\* Bodies of a PUT /servers/<id> request: a rename, one that disables the
\* server, and one without 'command'.
RouteUpdates ==
    {[name |-> "N", command |-> <<"node">>],
     [name |-> "N", command |-> <<"node">>, enabled |-> FALSE],
     [name |-> "N"]}
\* How `with mcp_client: mcp_client.list_tools_sync()` may end.
ClientOutcomes == {"ok", "exception"}
\* The fields of an MCPServer that hold a list or a dict.
MutableFields == {"command", "args", "env_vars", "available_tools"}
\* Event types a caller registers callbacks for.
EventTypes == {"server_error", "tool_call_start"}
\* What a registered callback does when it is called.
HandlerKinds == {"returns", "raises"}
\* The servers of a configuration with three entries, in the order of the
\* file, which is the order of self.servers.
AutoOrder == <<"a1", "a2", "a3">>
AutoIds == {AutoOrder[k] : k \in 1..Len(AutoOrder)}
\* The <<enabled, auto_connect>> flags of the three entries: all selected, and
\* one or two entries left out for either reason.
AutoConfigs ==
    {<<<<TRUE, TRUE>>, <<TRUE, TRUE>>, <<TRUE, TRUE>>>>,
     <<<<TRUE, TRUE>>, <<TRUE, TRUE>>, <<TRUE, FALSE>>>>,
     <<<<TRUE, TRUE>>, <<FALSE, TRUE>>, <<TRUE, TRUE>>>>,
     <<<<TRUE, FALSE>>, <<TRUE, TRUE>>, <<FALSE, FALSE>>>>}
\* How an awaited stage under asyncio.wait_for may end.
Outcomes == {"ok", "timeout", "exception"}

VARIABLES
    sdk_installed,       \* whether `from mcp import ...` succeeds in this process
    server_ids,          \* keys of self.servers
    config_file,         \* 'active_servers' of the file save_config wrote (load_config read)
    servers,             \* the MCPServer objects, by id (kept after removal: tasks hold references)
    active_connections,  \* self.active_connections: id -> index into stacks
    stacks,              \* every AsyncExitStack created so far
    tool_call_history,   \* self.tool_call_history
    emitted,             \* the events the last step handed to _trigger_event, in order
    tasks,               \* the coroutines, a bag: position and locals of each
    nops,                \* operations called so far
    event_callbacks,     \* self.event_callbacks: event type -> list of callbacks
    held,                \* the last synchronous call of the caller and what it returned
    uuids,               \* uuid.uuid4() calls so far
    agent                \* the StrandsMCPAgent: mcp_servers, mcp_clients, connected_servers

vars == <<sdk_installed, server_ids, config_file, servers, active_connections, stacks,
          tool_call_history, emitted, tasks, nops, event_callbacks, held, uuids, agent>>

\* ------------------------------------------------------------- data model
\* The configuration fields of an MCPServer: the keys of a descriptor and of
\* an entry of the file.
ConfigFields ==
    {"name", "description", "command", "args", "env_vars", "enabled", "auto_connect",
     "category"}

\* dataclass MCPServer as load_config builds it from an entry without keys
\* (session 0 is None; a dict is the set of its <<key, value>> items).
MCPServer ==
    [name |-> "Unknown Server", description |-> "", command |-> <<>>, args |-> <<>>,
     env_vars |-> {}, enabled |-> TRUE, auto_connect |-> FALSE, category |-> "General",
     status |-> "disconnected", session |-> 0, connected_at |-> "None",
     available_tools |-> <<>>, last_error |-> "None"]

\* d.get(key, default)
Get(d, key, default) == IF key \in DOMAIN d THEN d[key] ELSE default

\* save_config: the entry written for every server of the registry
\* (added_at and the settings are never read back).
SaveConfig(srv, ids) ==
    [id \in ids |->
        [name |-> srv[id].name, description |-> srv[id].description,
         command |-> srv[id].command, args |-> srv[id].args,
         env_vars |-> srv[id].env_vars, enabled |-> srv[id].enabled,
         auto_connect |-> srv[id].auto_connect, category |-> srv[id].category]]

\* load_config: the registry a new manager builds from the file.
LoadConfig(file) ==
    [id \in DOMAIN file |->
        [MCPServer EXCEPT
            !.name = Get(file[id], "name", "Unknown Server"),
            !.description = Get(file[id], "description", ""),
            !.command = Get(file[id], "command", <<>>),
            !.args = Get(file[id], "args", <<>>),
            !.env_vars = Get(file[id], "env_vars", {}),
            !.enabled = Get(file[id], "enabled", TRUE),
            !.auto_connect = Get(file[id], "auto_connect", FALSE),
            !.category = Get(file[id], "category", "General")]]

\* load_mcp_server_configs: every enabled entry of the file is stored under
\* its id; no entry of mcp_servers is removed.
LoadMcpServerConfigs(mcp_servers, file) ==
    LET enabled == {id \in DOMAIN file : Get(file[id], "enabled", TRUE)}
    IN [id \in (DOMAIN mcp_servers) \cup enabled |->
           IF id \in enabled THEN file[id] ELSE mcp_servers[id]]

\* StrandsMCPAgent.__init__: no client, no status, the configurations loaded.
StrandsMCPAgent(file) ==
    [mcp_servers |-> LoadMcpServerConfigs(<<>>, file),
     mcp_clients |-> {},
     connected_servers |-> <<>>]

\* What the caller holds before its first synchronous call.
NoCall == [op |-> "-", server_id |-> "-", dict |-> <<>>, ret |-> "-", refs |-> {}, at |-> 0]

\* The coroutine of a call of op(id) as it starts to run.
\* out is the way its last await ended; timeout is the parameter of call_tool;
\* result, duration and error are the entries of the dict call_tool returns;
\* selected is the `tasks` list of auto_connect_servers; slow tells that the
\* server answers every await only just within its timeout.
NewTask(op, id) ==
    [op |-> op, pc |-> "call", server_id |-> id, stack |-> 0,
     closing |-> 0, msg |-> "-", rec |-> 0, from |-> "-", ret |-> "-",
     out |-> "-", timeout |-> "-", result |-> "-", duration |-> "-", error |-> "-",
     selected |-> {}, slow |-> FALSE]

\* One emitted event: type and payload.
Event(type, id, tools, error, rec, status) ==
    [type |-> type, server_id |-> id, tools |-> tools, error |-> error,
     rec |-> rec, status |-> status]

\* del d[k]
Del(d, k) == [x \in (DOMAIN d) \ {k} |-> d[x]]

\* d[k] = v
Put(d, k, v) == [x \in (DOMAIN d) \cup {k} |-> IF x = k THEN v ELSE d[x]]

\* An AsyncExitStack holds exit callbacks once a context has been entered on
\* it and until aclose has drained it.
HasCallbacks(k) == stacks[k].state \in {"transport", "session"}

\* aclose on a stack without callbacks returns; with callbacks every one is
\* popped and run, and one of them may raise out of aclose.
AcloseOutcomes(k) == IF HasCallbacks(k) THEN {"ok", "raise"} ELSE {"ok"}

\* The coroutines still suspended as the next step starts: one that returned
\* in the last step has handed its value to its caller and is gone.
Suspended == [tk \in {x \in DOMAIN tasks : x.pc # "done"} |-> tasks[tk]]

\* Coroutine tk runs one segment and is then at nxt (a coroutine that is
\* being called is not yet among the tasks).
Go(tk, nxt) ==
    IF tk.pc = "call"
    THEN Suspended (+) SetToBag({nxt})
    ELSE (Suspended (-) SetToBag({tk})) (+) SetToBag({nxt})

\* `return v` of coroutine tk: the caller sees the value in this step.
Return(tk, v) == Go(tk, [tk EXCEPT !.pc = "done", !.from = tk.pc, !.ret = v])

\* A caller may start another operation.
CanStart ==
    /\ nops < MaxOps
    /\ BagCardinality(Suspended) < MaxTasks

\* ------------------------------------------------------------------- Init
Init ==
    /\ sdk_installed \in BOOLEAN
    /\ server_ids = {"s1"}
    /\ servers = [id \in AllIds |-> MCPServer]
    /\ config_file = SaveConfig(servers, server_ids)
    /\ active_connections = <<>>
    /\ stacks = <<>>
    /\ tool_call_history = <<>>
    /\ emitted = <<>>
    /\ tasks = EmptyBag
    /\ nops = 0
    /\ event_callbacks = <<>>
    /\ held = NoCall
    /\ uuids = 0
    /\ agent = StrandsMCPAgent(config_file)

\* ---------------------------------------------------------- connect_server
\* `except asyncio.TimeoutError` / `except Exception` up to the await of aclose.
ConnectFail(tk, msg) ==
    LET id == tk.server_id IN
    /\ servers' = [servers EXCEPT ![id] = [@ EXCEPT !.status = "error", !.last_error = msg]]
    /\ IF id \in DOMAIN active_connections /\ HasCallbacks(active_connections[id])
       THEN /\ tasks' = Go(tk, [tk EXCEPT !.pc = "aclose", !.msg = msg,
                                          !.closing = active_connections[id]])
            /\ UNCHANGED active_connections
            /\ emitted' = <<>>
       ELSE /\ active_connections' = Del(active_connections, id)
            /\ emitted' = <<Event("server_error", id, <<>>, msg, 0, "-")>>
            /\ tasks' = Return(tk, "False")

\* The awaits of connect_server under asyncio.wait_for, in order.
ConnectStages == {"transport", "session", "initialize", "list_tools"}

\* The timeout of the wait_for of a stage, for the default `timeout`.
StageTimeout(pc) ==
    IF pc = "transport" THEN TransportTimeout
    ELSE IF pc = "session" THEN SessionTimeout
    ELSE IF pc = "initialize" THEN InitializeTimeout
    ELSE ListToolsTimeout

\* The seconds f"Connection timeout after {timeout} seconds" names: the
\* parameter of connect_server, whichever await expired.
MessageTimeout == TransportTimeout

\* The message the handler stores for a failed stage.
FailMsg(out) == IF out = "timeout" THEN "Connection timeout" ELSE "exception"

\* ConnectUnknown if the error handling ran before the registry check: the
\* failure is announced for an id the registry does not hold.
ConnectUnknown_Announced(tk) ==
    /\ tasks' = Return(tk, "False")
    /\ UNCHANGED <<servers, active_connections, stacks>>
    /\ emitted' = <<Event("server_error", tk.server_id, <<>>, "exception", 0, "-")>>

\* `if server_id not in self.servers`: log and return False.
ConnectUnknown(tk) ==
    /\ tasks' = Return(tk, "False")
    /\ UNCHANGED <<servers, active_connections, stacks>>
    /\ emitted' = <<>>

\* `except ImportError`: the error is stored and False returned; the handler
\* triggers no event.
ConnectImportError(tk) ==
    /\ servers' = [servers EXCEPT ![tk.server_id] =
          [@ EXCEPT !.status = "error", !.last_error = "MCP SDK not installed"]]
    /\ tasks' = Return(tk, "False")
    /\ UNCHANGED <<active_connections, stacks>>
    /\ emitted' = <<>>

\* A new AsyncExitStack is stored under the id, whatever was stored there,
\* and the coroutine suspends in stdio_client.
ConnectOpen(tk) ==
    /\ stacks' = Append(stacks, [server_id |-> tk.server_id, state |-> "empty"])
    /\ active_connections' = Put(active_connections, tk.server_id, Len(stacks) + 1)
    /\ tasks' = Go(tk, [tk EXCEPT !.pc = "transport", !.stack = Len(stacks) + 1])
    /\ UNCHANGED servers
    /\ emitted' = <<>>

\* The call up to the first await: the registry check, the SDK import, the
\* new exit stack.
ConnectCall(id) ==
    /\ CanStart
    /\ nops' = nops + 1
    /\ LET tk == NewTask("connect", id) IN
       IF id \notin server_ids THEN ConnectUnknown(tk)
       ELSE IF ~sdk_installed THEN ConnectImportError(tk)
       ELSE ConnectOpen(tk)
    /\ UNCHANGED <<agent, held, uuids, sdk_installed, event_callbacks, server_ids, config_file, tool_call_history>>

\* await wait_for(exit_stack.enter_async_context(stdio_client(...)), timeout)
ConnectTransport(tk) ==
    /\ tk.op = "connect" /\ tk.pc = "transport"
    /\ \E out \in Outcomes :
         IF out = "ok"
         THEN /\ stacks[tk.stack].state = "empty"
              /\ stacks' = [stacks EXCEPT ![tk.stack].state = "transport"]
              /\ tasks' = Go(tk, [tk EXCEPT !.pc = "session"])
              /\ UNCHANGED <<servers, active_connections>>
              /\ emitted' = <<>>
         ELSE /\ ConnectFail(tk, FailMsg(out))
              /\ UNCHANGED stacks
    /\ UNCHANGED <<agent, held, uuids, sdk_installed, event_callbacks, server_ids, config_file, tool_call_history, nops>>

\* await wait_for(exit_stack.enter_async_context(ClientSession(...)), 10.0)
ConnectSession(tk) ==
    /\ tk.op = "connect" /\ tk.pc = "session"
    /\ \E out \in Outcomes :
         IF out = "ok"
         THEN /\ stacks[tk.stack].state = "transport"
              /\ stacks' = [stacks EXCEPT ![tk.stack].state = "session"]
              /\ tasks' = Go(tk, [tk EXCEPT !.pc = "initialize"])
              /\ UNCHANGED <<servers, active_connections>>
              /\ emitted' = <<>>
         ELSE /\ ConnectFail(tk, FailMsg(out))
              /\ UNCHANGED stacks
    /\ UNCHANGED <<agent, held, uuids, sdk_installed, event_callbacks, server_ids, config_file, tool_call_history, nops>>

\* await wait_for(session.initialize(), 15.0), then "Store session info".
ConnectInitialize(tk) ==
    /\ tk.op = "connect" /\ tk.pc = "initialize"
    /\ \E out \in Outcomes :
         IF out = "ok"
         THEN /\ stacks[tk.stack].state = "session"
              /\ servers' = [servers EXCEPT ![tk.server_id] =
                     [@ EXCEPT !.session = tk.stack, !.status = "connected",
                               !.connected_at = "ts"]]
              /\ tasks' = Go(tk, [tk EXCEPT !.pc = "list_tools"])
              /\ UNCHANGED active_connections
              /\ emitted' = <<>>
         ELSE ConnectFail(tk, FailMsg(out))
    /\ UNCHANGED <<agent, held, uuids, sdk_installed, event_callbacks, server_ids, config_file, stacks, tool_call_history, nops>>

\* await wait_for(session.list_tools(), 10.0), the tool cache, the event.
ConnectListTools(tk) ==
    /\ tk.op = "connect" /\ tk.pc = "list_tools"
    /\ \E out \in Outcomes :
         IF out = "ok"
         THEN /\ stacks[tk.stack].state = "session"
              /\ \E tools \in ToolLists :
                   /\ servers' = [servers EXCEPT ![tk.server_id].available_tools = tools]
                   /\ emitted' = <<Event("server_connected", tk.server_id, tools, "-", 0, "-")>>
              /\ tasks' = Return(tk, "True")
              /\ UNCHANGED active_connections
         ELSE ConnectFail(tk, FailMsg(out))
    /\ UNCHANGED <<agent, held, uuids, sdk_installed, event_callbacks, server_ids, config_file, stacks, tool_call_history, nops>>

\* ConnectAclose without the try/except around aclose: an exception of
\* aclose leaves connect_server.
ConnectAclose_Uncaught(tk) ==
    /\ tk.op = "connect" /\ tk.pc = "aclose"
    /\ \E out \in AcloseOutcomes(tk.closing) :
         /\ stacks' = [stacks EXCEPT ![tk.closing].state =
                          IF HasCallbacks(tk.closing) THEN "closed" ELSE @]
         /\ active_connections' =
               IF out = "ok" THEN Del(active_connections, tk.server_id)
               ELSE active_connections
         /\ emitted' = IF out = "ok"
                       THEN <<Event("server_error", tk.server_id, <<>>, tk.msg, 0, "-")>>
                       ELSE <<>>
         /\ tasks' = Go(tk, [tk EXCEPT !.pc = "done", !.from = tk.pc, !.out = out,
                                        !.ret = IF out = "ok" THEN "False" ELSE "raised"])
    /\ UNCHANGED <<agent, held, uuids, sdk_installed, event_callbacks, server_ids, config_file, servers, tool_call_history, nops>>

\* The rest of the except handler: aclose returns or raises, del, the event.
ConnectAclose(tk) ==
    /\ tk.op = "connect" /\ tk.pc = "aclose"
    /\ \E out \in AcloseOutcomes(tk.closing) :
         /\ stacks' = [stacks EXCEPT ![tk.closing].state =
                          IF HasCallbacks(tk.closing) THEN "closed" ELSE @]
         /\ active_connections' =
               IF out = "ok" THEN Del(active_connections, tk.server_id)
               ELSE active_connections
         /\ emitted' = <<Event("server_error", tk.server_id, <<>>, tk.msg, 0, "-")>>
         /\ tasks' = Go(tk, [tk EXCEPT !.pc = "done", !.from = tk.pc, !.ret = "False",
                                        !.out = out])
    /\ UNCHANGED <<agent, held, uuids, sdk_installed, event_callbacks, server_ids, config_file, servers, tool_call_history, nops>>

\* ------------------------------------------------------- disconnect_server
\* After `await exit_stack.aclose()` returned: del, the registry entry, the
\* event.  A missing key raises KeyError into `except Exception`, which logs.
DisconnectFinish(tk) ==
    LET id == tk.server_id IN
    IF id \notin DOMAIN active_connections
    THEN /\ tasks' = Return(tk, "None")
         /\ UNCHANGED <<active_connections, servers>>
         /\ emitted' = <<>>
    ELSE /\ active_connections' = Del(active_connections, id)
         /\ servers' = IF id \in server_ids
                       THEN [servers EXCEPT ![id] =
                               [@ EXCEPT !.status = "disconnected", !.session = 0,
                                         !.connected_at = "None", !.available_tools = <<>>]]
                       ELSE servers
         /\ emitted' = <<Event("server_disconnected", id, <<>>, "-", 0, "-")>>
         /\ tasks' = Return(tk, "None")

\* The coroutine up to its first suspension.
DisconnectRun(tk) ==
    LET id == tk.server_id IN
    IF id \notin DOMAIN active_connections
    THEN /\ tasks' = Return(tk, "None")
         /\ UNCHANGED <<active_connections, servers>>
         /\ emitted' = <<>>
    ELSE IF HasCallbacks(active_connections[id])
    THEN /\ tasks' = Go(tk, [tk EXCEPT !.pc = "aclose", !.closing = active_connections[id]])
         /\ UNCHANGED <<active_connections, servers>>
         /\ emitted' = <<>>
    ELSE DisconnectFinish(tk)

\* await manager.disconnect_server(id)
DisconnectCall(id) ==
    /\ CanStart
    /\ nops' = nops + 1
    /\ DisconnectRun(NewTask("disconnect", id))
    /\ UNCHANGED <<agent, held, uuids, sdk_installed, event_callbacks, server_ids, config_file, stacks, tool_call_history>>

\* The task remove_server created is scheduled.
DisconnectSpawned(tk) ==
    /\ tk.op = "disconnect" /\ tk.pc = "start"
    /\ DisconnectRun(tk)
    /\ UNCHANGED <<agent, held, uuids, sdk_installed, event_callbacks, server_ids, config_file, stacks, tool_call_history, nops>>

\* `await exit_stack.aclose()` returns or raises.
DisconnectAclose(tk) ==
    /\ tk.op = "disconnect" /\ tk.pc = "aclose"
    /\ \E out \in AcloseOutcomes(tk.closing) :
         /\ stacks' = [stacks EXCEPT ![tk.closing].state =
                          IF HasCallbacks(tk.closing) THEN "closed" ELSE @]
         /\ IF out = "ok"
            THEN DisconnectFinish(tk)
            ELSE /\ tasks' = Return(tk, "None")
                 /\ UNCHANGED <<active_connections, servers>>
                 /\ emitted' = <<>>
    /\ UNCHANGED <<agent, held, uuids, sdk_installed, event_callbacks, server_ids, config_file, tool_call_history, nops>>

\* ---------------------------------------------------------------- call_tool
\* One entry of tool_call_history (call_record); timestamp is the reading of
\* the clock when the call started.
CallRecord(id, tool) ==
    [server_id |-> id, tool_name |-> tool, timestamp |-> nops + 1, status |-> "executing",
     result |-> "None", error |-> "None", duration |-> "None"]

\* CallToolReject if the record were appended before the precondition
\* checks: a refused call leaves a failed entry in the history.
CallToolReject_Recorded(tk, err) ==
    /\ tasks' = Return(tk, err)
    /\ tool_call_history' = Append(tool_call_history,
          [CallRecord(tk.server_id, "t1") EXCEPT !.status = "failed", !.error = err])
    /\ emitted' = <<>>

\* The two early returns of call_tool: {'error': ...} and nothing else.
CallToolReject(tk, err) ==
    /\ tasks' = Return(tk, err)
    /\ UNCHANGED tool_call_history
    /\ emitted' = <<>>

\* CallToolStart if tool_call_start were not triggered: the record is
\* appended, and nobody is told before the remote call.
CallToolStart_Silent(tk, tool, timeout) ==
    /\ tool_call_history' = Append(tool_call_history, CallRecord(tk.server_id, tool))
    /\ emitted' = <<>>
    /\ tasks' = Go(tk, [tk EXCEPT !.pc = "remote", !.stack = servers[tk.server_id].session,
                                  !.rec = Len(tool_call_history) + 1, !.timeout = timeout])

\* CallToolStart if the record were inserted at the head of the history.
CallToolStart_Prepends(tk, tool, timeout) ==
    /\ tool_call_history' = <<CallRecord(tk.server_id, tool)>> \o tool_call_history
    /\ emitted' = <<Event("tool_call_start", tk.server_id, <<>>, "-", 1, "executing")>>
    /\ tasks' = Go(tk, [tk EXCEPT !.pc = "remote", !.stack = servers[tk.server_id].session,
                                  !.rec = 1, !.timeout = timeout])

\* "Record tool call": the record is appended, tool_call_start is triggered
\* with it, and the coroutine suspends in session.call_tool.
CallToolStart(tk, tool, timeout) ==
    /\ tool_call_history' = Append(tool_call_history, CallRecord(tk.server_id, tool))
    /\ emitted' = <<Event("tool_call_start", tk.server_id, <<>>, "-",
                          Len(tool_call_history) + 1, "executing")>>
    /\ tasks' = Go(tk, [tk EXCEPT !.pc = "remote", !.stack = servers[tk.server_id].session,
                                  !.rec = Len(tool_call_history) + 1, !.timeout = timeout])

\* The call up to the await of session.call_tool: the two precondition
\* checks, the record, tool_call_start.
CallToolCall(id, tool, timeout) ==
    /\ CanStart
    /\ nops' = nops + 1
    /\ LET tk == NewTask("call_tool", id) IN
       IF id \notin server_ids
       THEN CallToolReject(tk, "error: not found")
       ELSE IF servers[id].status # "connected" \/ servers[id].session = 0
       THEN CallToolReject(tk, "error: not connected")
       ELSE CallToolStart(tk, tool, timeout)
    /\ UNCHANGED <<agent, held, uuids, sdk_installed, event_callbacks, server_ids, config_file, servers, active_connections, stacks>>

\* f"Tool execution timed out after {timeout} seconds"
TimeoutMessage(timeout) ==
    IF timeout = "30.0" THEN "Tool execution timed out after 30.0 seconds"
    ELSE "Tool execution timed out after 60.0 seconds"

\* Finish if call_tool looked its record up as the oldest of the history.
Finish_Oldest(tk, out, rec, type, ret) ==
    /\ tool_call_history' = [tool_call_history EXCEPT ![1] = rec]
    /\ emitted' = <<Event(type, tk.server_id, <<>>, "-", 1, rec.status)>>
    /\ tasks' = Go(tk, [ret EXCEPT !.pc = "done", !.from = tk.pc, !.out = out])

\* The record of the call is updated in place and handed to the event.
Finish(tk, out, rec, type, ret) ==
    /\ tool_call_history' = [tool_call_history EXCEPT ![tk.rec] = rec]
    /\ emitted' = <<Event(type, tk.server_id, <<>>, "-", tk.rec, rec.status)>>
    /\ tasks' = Go(tk, [ret EXCEPT !.pc = "done", !.from = tk.pc, !.out = out])

\* CallToolCompleted if the duration were left out of the returned dict.
CallToolCompleted_NoDuration(tk) ==
    LET rec == [tool_call_history[tk.rec] EXCEPT
                   !.status = "completed", !.result = "content", !.duration = "elapsed"]
    IN Finish(tk, "ok", rec, "tool_call_complete",
              [tk EXCEPT !.ret = "success", !.result = rec.result])

\* The remote call returned in time: completed, result and duration stored,
\* tool_call_complete, {'success': True, 'result', 'duration'}.
CallToolCompleted(tk) ==
    LET rec == [tool_call_history[tk.rec] EXCEPT
                   !.status = "completed", !.result = "content", !.duration = "elapsed"]
    IN Finish(tk, "ok", rec, "tool_call_complete",
              [tk EXCEPT !.ret = "success", !.result = rec.result, !.duration = rec.duration])

\* CallToolTimedOut if the duration were measured from the start of the call,
\* as in the other two branches.
CallToolTimedOut_Elapsed(tk) ==
    LET rec == [tool_call_history[tk.rec] EXCEPT
                   !.status = "failed", !.error = TimeoutMessage(tk.timeout),
                   !.duration = "elapsed"]
    IN Finish(tk, "timeout", rec, "tool_call_error",
              [tk EXCEPT !.ret = "failure", !.error = rec.error])

\* CallToolTimedOut if the handler returned the error and left the record.
CallToolTimedOut_Unrecorded(tk) ==
    /\ UNCHANGED tool_call_history
    /\ emitted' = <<>>
    /\ tasks' = Go(tk, [tk EXCEPT !.pc = "done", !.from = tk.pc, !.out = "timeout",
                                  !.ret = "failure",
                                  !.error = TimeoutMessage(tk.timeout)])

\* `except asyncio.TimeoutError`: failed, the message with the timeout, the
\* timeout as duration, tool_call_error, {'success': False, 'error'}.
CallToolTimedOut(tk) ==
    LET rec == [tool_call_history[tk.rec] EXCEPT
                   !.status = "failed", !.error = TimeoutMessage(tk.timeout),
                   !.duration = tk.timeout]
    IN Finish(tk, "timeout", rec, "tool_call_error",
              [tk EXCEPT !.ret = "failure", !.error = rec.error])

\* CallToolFailed if the exception of the remote call were not caught: the
\* record stays as it is and the exception leaves call_tool.
CallToolFailed_Uncaught(tk) ==
    /\ UNCHANGED tool_call_history
    /\ emitted' = <<>>
    /\ tasks' = Go(tk, [tk EXCEPT !.pc = "done", !.from = tk.pc, !.out = "exception",
                                  !.ret = "raised"])

\* `except Exception as e`: failed, str(e) as error, the elapsed time as
\* duration, tool_call_error, {'success': False, 'error'}.
CallToolFailed(tk) ==
    LET rec == [tool_call_history[tk.rec] EXCEPT
                   !.status = "failed", !.error = "exception", !.duration = "elapsed"]
    IN Finish(tk, "exception", rec, "tool_call_error",
              [tk EXCEPT !.ret = "failure", !.error = rec.error])

\* CallToolFinish if a failed remote call marked the server as failed.
CallToolFinish_MarksError(tk) ==
    /\ tk.op = "call_tool" /\ tk.pc = "remote"
    /\ \E out \in Outcomes :
         IF out = "ok"
         THEN /\ stacks[tk.stack].state = "session"
              /\ CallToolCompleted(tk)
              /\ UNCHANGED servers
         ELSE /\ IF out = "timeout" THEN CallToolTimedOut(tk) ELSE CallToolFailed(tk)
              /\ servers' = [servers EXCEPT ![tk.server_id].status = "error"]
    /\ UNCHANGED <<agent, held, uuids, sdk_installed, event_callbacks, server_ids, config_file, active_connections, stacks, nops>>

\* CallToolFinish if the manager ran one operation at a time: the return of
\* the remote call is taken up only when nothing else is suspended.
CallToolFinish_Alone(tk) ==
    /\ tk.op = "call_tool" /\ tk.pc = "remote"
    /\ BagCardinality(Suspended) = 1
    /\ \E out \in Outcomes :
         IF out = "ok"
         THEN /\ stacks[tk.stack].state = "session"
              /\ CallToolCompleted(tk)
         ELSE IF out = "timeout" THEN CallToolTimedOut(tk)
         ELSE CallToolFailed(tk)
    /\ UNCHANGED <<agent, held, uuids, sdk_installed, event_callbacks, server_ids, config_file, servers, active_connections, stacks, nops>>

\* await wait_for(server.session.call_tool(...), timeout) and the three ways
\* it ends.
CallToolFinish(tk) ==
    /\ tk.op = "call_tool" /\ tk.pc = "remote"
    /\ \E out \in Outcomes :
         IF out = "ok"
         THEN /\ stacks[tk.stack].state = "session"
              /\ CallToolCompleted(tk)
         ELSE IF out = "timeout" THEN CallToolTimedOut(tk)
         ELSE CallToolFailed(tk)
    /\ UNCHANGED <<agent, held, uuids, sdk_installed, event_callbacks, server_ids, config_file, servers, active_connections, stacks, nops>>

\* ------------------------------------------------------------ remove_server
\* Synchronous.  asyncio.create_task needs a running event loop: without one
\* it raises before the registry entry is deleted.
RemoveServer(id, in_loop) ==
    /\ nops < MaxOps
    /\ nops' = nops + 1
    /\ IF id \notin server_ids
       THEN /\ UNCHANGED <<server_ids, config_file>>
            /\ tasks' = Suspended
       ELSE IF id \notin DOMAIN active_connections
       THEN /\ server_ids' = server_ids \ {id}
            /\ config_file' = SaveConfig(servers, server_ids')
            /\ tasks' = Suspended
       ELSE IF in_loop
       THEN /\ BagCardinality(Suspended) < MaxTasks
            /\ tasks' = Suspended (+) SetToBag({[NewTask("disconnect", id) EXCEPT !.pc = "start"]})
            /\ server_ids' = server_ids \ {id}
            /\ config_file' = SaveConfig(servers, server_ids')
       ELSE /\ UNCHANGED <<server_ids, config_file>>
            /\ tasks' = Suspended
    /\ UNCHANGED <<held, uuids, sdk_installed, event_callbacks, servers, active_connections, stacks, tool_call_history>>
    /\ emitted' = <<>>

\* ------------------------------------------------- add_server, update_server
\* What the caller holds after a synchronous call op(server_id): the dict it
\* passed or received, the value returned, and refs, the fields of the dict
\* that are the very list or dict object of the MCPServer.
Held(op, server_id, dict, ret, refs) ==
    [op |-> op, server_id |-> server_id, dict |-> dict, ret |-> ret, refs |-> refs,
     at |-> nops + 1]

\* NewId if uuid4 returned the same value on every call.
NewId_Repeats == UuidOrder[1]

\* `server_id = str(uuid.uuid4())`
NewId == UuidOrder[uuids + 1]

\* add_server: the MCPServer is built from the descriptor (a KeyError without
\* 'name' or 'command'), stored under the new id, and the file is rewritten.
\* The lists and dicts of the descriptor are stored, not copies of them.
AddServer(server_config) ==
    /\ nops < MaxOps
    /\ uuids < Len(UuidOrder)
    /\ nops' = nops + 1
    /\ uuids' = uuids + 1
    /\ IF {"name", "command"} \subseteq DOMAIN server_config
       THEN /\ servers' = Put(servers, NewId,
                    [MCPServer EXCEPT
                        !.name = server_config["name"],
                        !.description = Get(server_config, "description", ""),
                        !.command = server_config["command"],
                        !.args = Get(server_config, "args", <<>>),
                        !.env_vars = Get(server_config, "env_vars", {}),
                        !.enabled = Get(server_config, "enabled", TRUE),
                        !.auto_connect = Get(server_config, "auto_connect", FALSE),
                        !.category = Get(server_config, "category", "General")])
            /\ server_ids' = server_ids \cup {NewId}
            /\ config_file' = SaveConfig(servers', server_ids')
            /\ held' = Held("add_server", NewId, server_config, NewId,
                            DOMAIN server_config \cap MutableFields)
       ELSE /\ UNCHANGED <<servers, server_ids, config_file>>
            /\ held' = Held("add_server", NewId, server_config, "KeyError", {})
    /\ tasks' = Suspended
    /\ emitted' = <<>>
    /\ UNCHANGED <<sdk_installed, event_callbacks, active_connections, stacks,
                   tool_call_history>>

\* Merge if update_server built the server anew from the descriptor.
Merge_Rebuilds(server, server_config) ==
    [MCPServer EXCEPT
        !.name = Get(server_config, "name", server.name),
        !.description = Get(server_config, "description", ""),
        !.command = Get(server_config, "command", server.command),
        !.args = Get(server_config, "args", <<>>),
        !.env_vars = Get(server_config, "env_vars", {}),
        !.enabled = Get(server_config, "enabled", TRUE),
        !.auto_connect = Get(server_config, "auto_connect", FALSE),
        !.category = Get(server_config, "category", "General")]

\* "Update fields": `server.f = server_config.get('f', server.f)` for each of
\* the eight configuration fields.
Merge(server, server_config) ==
    [server EXCEPT
        !.name = Get(server_config, "name", @),
        !.description = Get(server_config, "description", @),
        !.command = Get(server_config, "command", @),
        !.args = Get(server_config, "args", @),
        !.env_vars = Get(server_config, "env_vars", @),
        !.enabled = Get(server_config, "enabled", @),
        !.auto_connect = Get(server_config, "auto_connect", @),
        !.category = Get(server_config, "category", @)]

\* update_server: False for an unknown id, before anything is written; the
\* fields merged and the file rewritten otherwise.
UpdateServer(server_id, server_config) ==
    /\ nops < MaxOps
    /\ nops' = nops + 1
    /\ IF server_id \notin server_ids
       THEN /\ UNCHANGED <<servers, config_file>>
            /\ held' = Held("update_server", server_id, server_config, "False", {})
       ELSE /\ servers' = [servers EXCEPT ![server_id] = Merge(@, server_config)]
            /\ config_file' = SaveConfig(servers', server_ids)
            /\ held' = Held("update_server", server_id, server_config, "True",
                            DOMAIN server_config \cap MutableFields)
    /\ tasks' = Suspended
    /\ emitted' = <<>>
    /\ UNCHANGED <<sdk_installed, event_callbacks, server_ids, active_connections, stacks,
                   tool_call_history, uuids>>

\* ------------------------------- get_server_status, get_all_servers, get_all_tools
\* The dict get_server_status builds for a registered server: 'env_vars' and
\* 'available_tools' are the objects of the MCPServer.
ServerStatus(server_id) ==
    LET server == servers[server_id] IN
    [id |-> server_id, name |-> server.name, description |-> server.description,
     status |-> server.status, category |-> server.category,
     env_vars |-> server.env_vars, connected_at |-> server.connected_at,
     available_tools |-> server.available_tools, last_error |-> server.last_error]

\* get_server_status: {'error': ...} for an unknown id.
GetServerStatus(server_id) ==
    /\ nops < MaxOps
    /\ nops' = nops + 1
    /\ held' = IF server_id \notin server_ids
               THEN Held("get_server_status", server_id,
                         [error |-> "Server not found"], "-", {})
               ELSE Held("get_server_status", server_id, ServerStatus(server_id), "-",
                         {"env_vars", "available_tools"})
    /\ tasks' = Suspended
    /\ emitted' = <<>>
    /\ UNCHANGED <<sdk_installed, event_callbacks, server_ids, config_file, servers,
                   active_connections, stacks, tool_call_history, uuids, agent>>

\* get_all_servers: the status dict of every registered server, here by id.
GetAllServers == [id \in server_ids |-> ServerStatus(id)]

\* The entries get_all_tools appends for one server.
ToolsOf(id) ==
    {[server_id |-> id, server_name |-> servers[id].name,
      tool_name |-> servers[id].available_tools[k]] :
        k \in 1..Len(servers[id].available_tools)}

\* GetAllTools without `if server.status == "connected"`.
GetAllTools_AnyStatus == UNION {ToolsOf(id) : id \in server_ids}

\* get_all_tools: the entries of the servers whose status is connected.
GetAllTools ==
    UNION {ToolsOf(id) : id \in {i \in server_ids : servers[i].status = "connected"}}

\* A call of get_all_tools.
GetAllToolsCall ==
    /\ nops < MaxOps
    /\ nops' = nops + 1
    /\ held' = Held("get_all_tools", "-", <<>>, GetAllTools, {})
    /\ tasks' = Suspended
    /\ emitted' = <<>>
    /\ UNCHANGED <<sdk_installed, event_callbacks, server_ids, config_file, servers,
                   active_connections, stacks, tool_call_history, uuids, agent>>

\* list.append / dict item assignment on an object of the given field.
Write(field, v) == IF field = "env_vars" THEN v \cup {<<"X", "x">>} ELSE Append(v, "x")

\* The caller, before it calls anything else, changes a list or dict of the
\* dict it holds: the MCPServer changes with it where the two are one object.
CallerWrites(field) ==
    /\ held.op \in {"add_server", "update_server", "get_server_status"}
    /\ held.at = nops
    /\ Suspended = EmptyBag
    /\ field \in DOMAIN held.dict \cap MutableFields
    /\ held' = [held EXCEPT !.op = "write", !.dict[field] = Write(field, @)]
    /\ servers' = IF field \in held.refs
                  THEN [servers EXCEPT ![held.server_id][field] = Write(field, @)]
                  ELSE servers
    /\ tasks' = Suspended
    /\ emitted' = <<>>
    /\ UNCHANGED <<sdk_installed, event_callbacks, server_ids, config_file,
                   active_connections, stacks, tool_call_history, uuids, nops, agent>>

\* ------------------------------------------------------------ StrandsMCPAgent
\* HasClient if connect_server did not look for a client of the id.
HasClient_Unchecked(id) == FALSE

\* `if server_id in self.mcp_clients: return True`
HasClient(id) == id \in agent.mcp_clients

\* StrandsMCPAgent.connect_server, as the route runs it: False for an id
\* without configuration or without command, True at once for an id with a
\* client; otherwise a client is made and its tools listed, and the client
\* and its status are stored, or the error is.
AgentConnectServer(id) ==
    /\ nops < MaxOps
    /\ nops' = nops + 1
    /\ IF id \notin DOMAIN agent.mcp_servers
       THEN /\ UNCHANGED agent
            /\ held' = Held("agent.connect_server", id, <<>>, "False", {})
       ELSE IF HasClient(id)
       THEN /\ UNCHANGED agent
            /\ held' = Held("agent.connect_server", id, <<>>, "True", {})
       ELSE IF Get(agent.mcp_servers[id], "command", <<>>) = <<>>
       THEN /\ UNCHANGED agent
            /\ held' = Held("agent.connect_server", id, <<>>, "False", {})
       ELSE \E out \in ClientOutcomes, tools \in ToolLists :
              IF out = "ok"
              THEN /\ agent' = [agent EXCEPT
                        !.mcp_clients = @ \cup {id},
                        !.connected_servers = Put(@, id,
                            [name |-> Get(agent.mcp_servers[id], "name", id),
                             description |-> Get(agent.mcp_servers[id], "description", ""),
                             status |-> "connected", tools_count |-> Len(tools)])]
                   /\ held' = Held("agent.connect_server", id, <<>>, "True", {})
              ELSE /\ agent' = [agent EXCEPT
                        !.connected_servers = Put(@, id,
                            [name |-> Get(agent.mcp_servers[id], "name", id),
                             status |-> "error", error |-> "exception"])]
                   /\ held' = Held("agent.connect_server", id, <<>>, "False", {})
    /\ tasks' = Suspended
    /\ emitted' = <<>>
    /\ UNCHANGED <<sdk_installed, event_callbacks, server_ids, config_file, servers,
                   active_connections, stacks, tool_call_history, uuids>>

\* The agent after StrandsMCPAgent.disconnect_server(id): the client and the
\* status are deleted if there is a client.
Disconnected(a, id) ==
    IF id \in a.mcp_clients
    THEN [a EXCEPT !.mcp_clients = @ \ {id},
                   !.connected_servers = IF id \in DOMAIN @ THEN Del(@, id) ELSE @]
    ELSE a

\* StrandsMCPAgent.disconnect_server, as the route runs it: True in every case.
AgentDisconnectServer(id) ==
    /\ nops < MaxOps
    /\ nops' = nops + 1
    /\ agent' = Disconnected(agent, id)
    /\ held' = Held("agent.disconnect_server", id, <<>>, "True", {})
    /\ tasks' = Suspended
    /\ emitted' = <<>>
    /\ UNCHANGED <<sdk_installed, event_callbacks, server_ids, config_file, servers,
                   active_connections, stacks, tool_call_history, uuids>>

\* StrandsMCPAgent.get_server_status(): the ids of 'servers', those with a
\* status and those with a configuration.
AgentServers == (DOMAIN agent.connected_servers) \cup (DOMAIN agent.mcp_servers)

\* ------------------------------------------------------------------- routes
\* The request has the fields the POST and PUT routes require.
Valid(data) == {"name", "command"} \subseteq DOMAIN data

\* A request the route answers without calling the manager.
Refused(op, id, data) ==
    /\ nops < MaxOps
    /\ nops' = nops + 1
    /\ held' = Held(op, id, data, "400", {})
    /\ tasks' = Suspended
    /\ emitted' = <<>>
    /\ UNCHANGED <<sdk_installed, event_callbacks, server_ids, config_file, servers,
                   active_connections, stacks, tool_call_history, uuids, agent>>

\* POST /servers: add_server, then the agent loads the file again.
AddServerRoute(data) ==
    IF Valid(data)
    THEN /\ AddServer(data)
         /\ agent' = [agent EXCEPT
                !.mcp_servers = LoadMcpServerConfigs(@, config_file')]
    ELSE Refused("add_server", "-", data)

\* PUT /servers/<id>: update_server, and unless it returned False the agent
\* loads the file again.
UpdateServerRoute(id, data) ==
    IF Valid(data)
    THEN /\ UpdateServer(id, data)
         /\ agent' = IF id \in server_ids
                     THEN [agent EXCEPT
                             !.mcp_servers = LoadMcpServerConfigs(@, config_file')]
                     ELSE agent
    ELSE Refused("update_server", id, data)

\* DELETE /servers/<id>: the agent disconnects the id if it has a client,
\* remove_server runs outside any event loop, and unless it raised the agent
\* loads the file again.
RemoveServerRoute(id) ==
    /\ RemoveServer(id, FALSE)
    /\ agent' = IF id \in server_ids /\ id \in DOMAIN active_connections
                THEN Disconnected(agent, id)
                ELSE [Disconnected(agent, id) EXCEPT
                        !.mcp_servers = LoadMcpServerConfigs(@, config_file')]

\* ----------------------------------------------------- auto_connect_servers
\* `if server.auto_connect and server.enabled`
Selected_Enabled == {id \in server_ids : servers[id].enabled}

Selected == {id \in server_ids : servers[id].auto_connect /\ servers[id].enabled}

\* The call up to the await of the gather: one task per selected server,
\* created and not yet run; without a selected server the call returns.
AutoConnectCall ==
    /\ nops = 0
    /\ nops' = nops + 1
    /\ LET tk == NewTask("auto_connect", "-") IN
       IF Selected = {}
       THEN tasks' = Return(tk, "None")
       ELSE \E slow \in SUBSET Selected :
              tasks' = Go(tk, [tk EXCEPT !.pc = "gather", !.selected = Selected])
                         (+) SetToBag({[NewTask("connect", id) EXCEPT
                                           !.pc = "start", !.slow = id \in slow] :
                                       id \in Selected})
    /\ emitted' = <<>>
    /\ UNCHANGED <<agent, held, uuids, sdk_installed, event_callbacks, server_ids, config_file, servers,
                   active_connections, stacks, tool_call_history>>

\* A task auto_connect_servers created is scheduled: connect_server up to
\* its first await.  The event loop runs the tasks in the order of their
\* creation.
ConnectSpawned(tk) ==
    /\ tk.op = "connect" /\ tk.pc = "start"
    /\ \A k \in 1..Len(AutoOrder) :
          (AutoOrder[k] = tk.server_id) =>
              ~\E other \in BagToSet(Suspended) :
                  /\ other.op = "connect" /\ other.pc = "start"
                  /\ \E j \in 1..(k - 1) : AutoOrder[j] = other.server_id
    /\ IF tk.server_id \notin server_ids THEN ConnectUnknown(tk)
       ELSE IF ~sdk_installed THEN ConnectImportError(tk)
       ELSE ConnectOpen(tk)
    /\ UNCHANGED <<agent, held, uuids, sdk_installed, event_callbacks, server_ids, config_file, tool_call_history, nops>>

\* The tasks of the gather that have not ended.
Running(auto) ==
    {tk \in BagToSet(Suspended) : tk.op = "connect" /\ tk.server_id \in auto.selected}

\* The longest a connect_server may have been running when it is suspended
\* at tk.pc: the timeouts of its awaits so far, for a slow server.
Elapsed(tk) ==
    IF ~tk.slow THEN 0
    ELSE IF tk.pc = "transport" THEN TransportTimeout
    ELSE IF tk.pc = "session" THEN TransportTimeout + SessionTimeout
    ELSE IF tk.pc = "initialize" THEN TransportTimeout + SessionTimeout + InitializeTimeout
    ELSE IF tk.pc = "list_tools"
    THEN TransportTimeout + SessionTimeout + InitializeTimeout + ListToolsTimeout
    ELSE 0

\* Late if the timeout of the gather were no longer than that of one await.
Late_ShortDeadline(tk) == tk.pc # "start"

\* The attempt can still be running when the timeout of the gather expires:
\* its awaits have lasted longer together, or it is in aclose, which is
\* awaited without a timeout.
Late(tk) == tk.pc = "aclose" \/ Elapsed(tk) > GlobalTimeout

\* `except asyncio.TimeoutError` of the gather: wait_for has cancelled the
\* gather and with it every task still running.  CancelledError is no
\* Exception: it leaves connect_server through none of its handlers; in
\* aclose it is thrown into the callback being awaited, and the stack goes on
\* to run the others.
Deadline(auto) ==
    /\ auto.op = "auto_connect" /\ auto.pc = "gather"
    /\ Running(auto) # {}
    /\ \A tk \in Running(auto) : Late(tk)
    /\ tasks' = (Suspended (-) SetToBag(Running(auto) \cup {auto}))
                   (+) SetToBag({[tk EXCEPT !.pc = "done", !.from = tk.pc,
                                            !.ret = "cancelled"] : tk \in Running(auto)})
                   (+) SetToBag({[auto EXCEPT !.pc = "done", !.from = "gather",
                                              !.ret = "None", !.out = "timeout"]})
    /\ stacks' = [k \in DOMAIN stacks |->
                     IF \E tk \in Running(auto) : tk.pc = "aclose" /\ tk.closing = k
                     THEN [stacks[k] EXCEPT !.state = IF HasCallbacks(k) THEN "closed" ELSE @]
                     ELSE stacks[k]]
    /\ emitted' = <<>>
    /\ UNCHANGED <<agent, held, uuids, sdk_installed, event_callbacks, server_ids, config_file, servers,
                   active_connections, tool_call_history, nops>>

\* The gather has the result of every task: the results are logged.
AutoConnectReturn(auto) ==
    /\ auto.op = "auto_connect" /\ auto.pc = "gather"
    /\ Running(auto) = {}
    /\ tasks' = Go(auto, [auto EXCEPT !.pc = "done", !.from = "gather", !.ret = "None",
                                      !.out = "ok"])
    /\ emitted' = <<>>
    /\ UNCHANGED <<agent, held, uuids, sdk_installed, event_callbacks, server_ids, config_file, servers,
                   active_connections, stacks, tool_call_history, nops>>

\* ------------------------------------------------------------------ events
\* The callbacks registered in all lists together.
RECURSIVE Registered(_)
Registered(types) ==
    IF types = {} THEN 0
    ELSE LET t == CHOOSE x \in types : TRUE
         IN Len(event_callbacks[t]) + Registered(types \ {t})

\* on_event(event_type, callback): the list of the type is created if it is
\* missing, and the callback appended.
OnEvent(type, kind) ==
    /\ Registered(DOMAIN event_callbacks) < MaxHandlers
    /\ event_callbacks' =
          Put(event_callbacks, type,
              Append(IF type \in DOMAIN event_callbacks THEN event_callbacks[type] ELSE <<>>,
                     kind))
    /\ tasks' = Suspended
    /\ emitted' = <<>>
    /\ UNCHANGED <<agent, held, uuids, sdk_installed, server_ids, config_file, servers, active_connections,
                   stacks, tool_call_history, nops>>

\* The body of the loop if the call of the callback were not in a try: the
\* exception of a callback leaves _trigger_event.
Callback_Uncaught(run, i, kind) ==
    [invoked |-> Append(run.invoked, i), logged |-> run.logged, raised |-> kind = "raises"]

\* The body of the loop of _trigger_event: `try: callback(data)`, and
\* `except Exception` logs.
Callback(run, i, kind) ==
    [invoked |-> Append(run.invoked, i),
     logged |-> IF kind = "raises" THEN run.logged + 1 ELSE run.logged,
     raised |-> FALSE]

\* `for callback in self.event_callbacks[event_type]`, from the i-th on: an
\* exception that leaves the body ends the loop.
RECURSIVE Loop(_, _, _)
Loop(callbacks, i, run) ==
    IF i > Len(callbacks) \/ run.raised THEN run
    ELSE Loop(callbacks, i + 1, Callback(run, i, callbacks[i]))

\* _trigger_event(event_type, data): which callbacks were called, how many
\* errors were logged, and whether an exception reached the caller.
TriggerEvent(type) ==
    LET run == [invoked |-> <<>>, logged |-> 0, raised |-> FALSE]
    IN IF type \in DOMAIN event_callbacks THEN Loop(event_callbacks[type], 1, run) ELSE run

\* One operation at a time: a caller that awaits each call before the next.
OneAtATime == (nops' # nops) => (Suspended = EmptyBag)

Next ==
    \/ \E id \in AllIds : ConnectCall(id)
    \/ \E tk \in BagToSet(tasks) : ConnectTransport(tk)
    \/ \E tk \in BagToSet(tasks) : ConnectSession(tk)
    \/ \E tk \in BagToSet(tasks) : ConnectInitialize(tk)
    \/ \E tk \in BagToSet(tasks) : ConnectListTools(tk)
    \/ \E tk \in BagToSet(tasks) : ConnectAclose(tk)
    \/ \E id \in AllIds : DisconnectCall(id)
    \/ \E tk \in BagToSet(tasks) : DisconnectSpawned(tk)
    \/ \E tk \in BagToSet(tasks) : DisconnectAclose(tk)
    \/ \E id \in AllIds, tool \in ToolNames, timeout \in Timeouts : CallToolCall(id, tool, timeout)
    \/ \E tk \in BagToSet(tasks) : CallToolFinish(tk)
    \/ \E id \in AllIds, in_loop \in BOOLEAN : RemoveServer(id, in_loop) /\ UNCHANGED agent

Spec == Init /\ [][Next]_vars

\* No connect_server opens an exit stack while another connect_server is
\* suspended: callers that await one connect before they start the next.
ConnectsApart ==
    (\E tk \in BagToSet(tasks') :
        /\ tk.op = "connect" /\ tk.pc = "transport"
        /\ CopiesIn(tk, tasks') > CopiesIn(tk, Suspended))
    => ~\E other \in BagToSet(Suspended) : other.op = "connect"

\* The manager under such callers; every other call may overlap any other.
NextCalls ==
    \/ \E id \in AllIds : ConnectCall(id) /\ ConnectsApart
    \/ \E id \in AllIds : DisconnectCall(id)
    \/ \E id \in AllIds, tool \in ToolNames, timeout \in Timeouts : CallToolCall(id, tool, timeout)
    \/ \E id \in AllIds, in_loop \in BOOLEAN : RemoveServer(id, in_loop) /\ UNCHANGED agent
    \/ \E tk \in BagToSet(tasks) : ConnectTransport(tk)
    \/ \E tk \in BagToSet(tasks) : ConnectSession(tk)
    \/ \E tk \in BagToSet(tasks) : ConnectInitialize(tk)
    \/ \E tk \in BagToSet(tasks) : ConnectListTools(tk)
    \/ \E tk \in BagToSet(tasks) : ConnectAclose(tk)
    \/ \E tk \in BagToSet(tasks) : DisconnectSpawned(tk)
    \/ \E tk \in BagToSet(tasks) : DisconnectAclose(tk)
    \/ \E tk \in BagToSet(tasks) : CallToolFinish(tk)

SpecCalls == Init /\ [][NextCalls]_vars

\* asyncio.wait_for ends the await of a remote call when the call returns or
\* raises and at the latest when its timeout expires, and the event loop
\* resumes every coroutine whose await has ended.
CallsEnd == WF_vars(\E tk \in BagToSet(tasks) : CallToolFinish(tk))

SpecCallsLive == SpecCalls /\ CallsEnd

\* The manager with callbacks: on_event at any time, and the operations
\* called one at a time.
NextEvents ==
    \/ \E type \in EventTypes, kind \in HandlerKinds : OnEvent(type, kind)
    \/ \E id \in AllIds : ConnectCall(id) /\ OneAtATime
    \/ \E id \in AllIds : DisconnectCall(id) /\ OneAtATime
    \/ \E id \in AllIds, tool \in ToolNames, timeout \in Timeouts :
          CallToolCall(id, tool, timeout) /\ OneAtATime
    \/ \E id \in AllIds, in_loop \in BOOLEAN :
          RemoveServer(id, in_loop) /\ UNCHANGED agent /\ OneAtATime
    \/ \E tk \in BagToSet(tasks) : ConnectTransport(tk)
    \/ \E tk \in BagToSet(tasks) : ConnectSession(tk)
    \/ \E tk \in BagToSet(tasks) : ConnectInitialize(tk)
    \/ \E tk \in BagToSet(tasks) : ConnectListTools(tk)
    \/ \E tk \in BagToSet(tasks) : ConnectAclose(tk)
    \/ \E tk \in BagToSet(tasks) : DisconnectSpawned(tk)
    \/ \E tk \in BagToSet(tasks) : DisconnectAclose(tk)
    \/ \E tk \in BagToSet(tasks) : CallToolFinish(tk)

SpecEvents == Init /\ [][NextEvents]_vars

\* The ids a caller passes: the registered ones, and one never added.
RegistryIds == server_ids \cup AllIds

\* The registry: add, update, remove and the listings, with connects and
\* disconnects, every call made when the one before it has returned.
NextRegistry ==
    \/ \E server_config \in ServerConfigs :
          AddServer(server_config) /\ UNCHANGED agent /\ OneAtATime
    \/ \E id \in RegistryIds, server_config \in UpdateConfigs :
          UpdateServer(id, server_config) /\ UNCHANGED agent /\ OneAtATime
    \/ \E id \in RegistryIds, in_loop \in BOOLEAN :
          RemoveServer(id, in_loop) /\ UNCHANGED agent /\ OneAtATime
    \/ \E id \in RegistryIds : GetServerStatus(id) /\ OneAtATime
    \/ GetAllToolsCall /\ OneAtATime
    \/ \E field \in MutableFields : CallerWrites(field)
    \/ \E id \in RegistryIds : ConnectCall(id) /\ OneAtATime
    \/ \E id \in RegistryIds : DisconnectCall(id) /\ OneAtATime
    \/ \E tk \in BagToSet(tasks) : ConnectTransport(tk)
    \/ \E tk \in BagToSet(tasks) : ConnectSession(tk)
    \/ \E tk \in BagToSet(tasks) : ConnectInitialize(tk)
    \/ \E tk \in BagToSet(tasks) : ConnectListTools(tk)
    \/ \E tk \in BagToSet(tasks) : ConnectAclose(tk)
    \/ \E tk \in BagToSet(tasks) : DisconnectSpawned(tk)
    \/ \E tk \in BagToSet(tasks) : DisconnectAclose(tk)

\* The manager in a process that has the MCP SDK.
InitRegistry == Init /\ sdk_installed

SpecRegistry == InitRegistry /\ [][NextRegistry]_vars

\* The application: the routes that change the registry and the agent, one
\* request at a time.
NextRoutes ==
    \/ \E data \in ServerConfigs : AddServerRoute(data)
    \/ \E id \in RegistryIds, data \in RouteUpdates : UpdateServerRoute(id, data)
    \/ \E id \in RegistryIds : RemoveServerRoute(id)
    \/ \E id \in RegistryIds : AgentConnectServer(id)
    \/ \E id \in RegistryIds : AgentDisconnectServer(id)

\* The application started on a file with one entry, a server with a command.
InitRoutes ==
    /\ sdk_installed = TRUE
    /\ server_ids = {"s1"}
    /\ servers = [id \in AllIds |->
                    [MCPServer EXCEPT !.name = "A", !.command = <<"node">>]]
    /\ config_file = SaveConfig(servers, server_ids)
    /\ active_connections = <<>>
    /\ stacks = <<>>
    /\ tool_call_history = <<>>
    /\ emitted = <<>>
    /\ tasks = EmptyBag
    /\ nops = 0
    /\ event_callbacks = <<>>
    /\ held = NoCall
    /\ uuids = 0
    /\ agent = StrandsMCPAgent(config_file)

SpecRoutes == InitRoutes /\ [][NextRoutes]_vars

\* The manager as load_config leaves it with two entries in the file.
InitPair ==
    /\ sdk_installed = TRUE
    /\ server_ids = AllIds
    /\ servers = [id \in AllIds |-> MCPServer]
    /\ config_file = SaveConfig(servers, server_ids)
    /\ active_connections = <<>>
    /\ stacks = <<>>
    /\ tool_call_history = <<>>
    /\ emitted = <<>>
    /\ tasks = EmptyBag
    /\ nops = 0
    /\ event_callbacks = <<>>
    /\ held = NoCall
    /\ uuids = 0
    /\ agent = StrandsMCPAgent(config_file)

\* Connects and tool calls on the two servers, overlapping in any way but
\* for two connects.
NextPair ==
    \/ \E id \in AllIds : ConnectCall(id) /\ ConnectsApart
    \/ \E id \in AllIds, tool \in ToolNames, timeout \in Timeouts : CallToolCall(id, tool, timeout)
    \/ \E tk \in BagToSet(tasks) : ConnectTransport(tk)
    \/ \E tk \in BagToSet(tasks) : ConnectSession(tk)
    \/ \E tk \in BagToSet(tasks) : ConnectInitialize(tk)
    \/ \E tk \in BagToSet(tasks) : ConnectListTools(tk)
    \/ \E tk \in BagToSet(tasks) : ConnectAclose(tk)
    \/ \E tk \in BagToSet(tasks) : CallToolFinish(tk)

SpecPair == InitPair /\ [][NextPair]_vars

\* The manager as load_config leaves it with three entries in the file.
InitAuto ==
    /\ sdk_installed \in BOOLEAN
    /\ server_ids = AutoIds
    /\ \E flags \in AutoConfigs :
          servers = [id \in AutoIds |->
                        LET k == CHOOSE j \in 1..Len(AutoOrder) : AutoOrder[j] = id
                        IN [MCPServer EXCEPT !.enabled = flags[k][1],
                                             !.auto_connect = flags[k][2]]]
    /\ config_file = SaveConfig(servers, server_ids)
    /\ active_connections = <<>>
    /\ stacks = <<>>
    /\ tool_call_history = <<>>
    /\ emitted = <<>>
    /\ tasks = EmptyBag
    /\ nops = 0
    /\ event_callbacks = <<>>
    /\ held = NoCall
    /\ uuids = 0
    /\ agent = StrandsMCPAgent(config_file)

\* auto_connect_servers called once on the fresh manager, and its tasks.
NextAuto ==
    \/ AutoConnectCall
    \/ \E tk \in BagToSet(tasks) : ConnectSpawned(tk)
    \/ \E tk \in BagToSet(tasks) : ConnectTransport(tk)
    \/ \E tk \in BagToSet(tasks) : ConnectSession(tk)
    \/ \E tk \in BagToSet(tasks) : ConnectInitialize(tk)
    \/ \E tk \in BagToSet(tasks) : ConnectListTools(tk)
    \/ \E tk \in BagToSet(tasks) : ConnectAclose(tk)
    \/ \E tk \in BagToSet(tasks) : Deadline(tk)
    \/ \E tk \in BagToSet(tasks) : AutoConnectReturn(tk)

SpecAuto == InitAuto /\ [][NextAuto]_vars

\* ================================================================= claims
\* The coroutines that returned in the last step (at most one).
Returned(op) == {tk \in BagToSet(tasks) : tk.pc = "done" /\ tk.op = op}

\* The coroutines suspended at an await.
InFlight(op) == {tk \in BagToSet(tasks) : tk.pc # "done" /\ tk.op = op}

\* This step is a caller's call of op(id), and tk is its coroutine after the
\* step: returned already, or suspended at its first await.
Called(op, id, tk) ==
    /\ nops' = nops + 1
    /\ tk \in BagToSet(tasks')
    /\ tk.op = op /\ tk.server_id = id /\ tk.pc # "start"
    /\ CopiesIn(tk, tasks') > CopiesIn(tk, Suspended)

\* Exit stacks of server id with a context entered and not yet closed.
OpenStacks(id) ==
    {k \in 1..Len(stacks) : stacks[k].server_id = id /\ HasCallbacks(k)}

\* C1: after every operation of the manager, every server has connected_at
\* set exactly when its status is connected, and cached tools only when its
\* status is connected.
C1_StatusCoVaries ==
    (\E tk \in BagToSet(tasks) : tk.pc = "done") =>
        \A id \in server_ids :
            /\ (servers[id].connected_at # "None") <=> (servers[id].status = "connected")
            /\ (servers[id].available_tools # <<>>) => (servers[id].status = "connected")

\* C2: a connect_server whose stages all succeed returns True with the
\* server connected, connected_at set, and exactly one server_connected event
\* carrying the tool list that is now the server's cache.
C2_ConnectSuccess ==
    \A tk \in Returned("connect") :
        tk.ret = "True" =>
            /\ servers[tk.server_id].status = "connected"
            /\ servers[tk.server_id].connected_at # "None"
            /\ Len(emitted) = 1
            /\ emitted[1].type = "server_connected"
            /\ emitted[1].server_id = tk.server_id
            /\ emitted[1].tools = servers[tk.server_id].available_tools

\* C3: a connect_server on a known id that fails at any stage (the SDK
\* import included) returns False with status error, last_error set and a
\* server_error event for the id.
C3_ConnectFailure ==
    \A tk \in Returned("connect") :
        (tk.ret = "False" /\ tk.server_id \in server_ids) =>
            /\ servers[tk.server_id].status = "error"
            /\ servers[tk.server_id].last_error # "None"
            /\ Len(emitted) = 1
            /\ emitted[1].type = "server_error"
            /\ emitted[1].server_id = tk.server_id

\* C4: when a connect_server that opened an exit stack returns False, the
\* stack holds no open context, active_connections has no entry for the id,
\* and server.session is not the session of the failed attempt.
C4_FailedConnectReleases ==
    \A tk \in Returned("connect") :
        (tk.ret = "False" /\ tk.stack # 0) =>
            /\ ~HasCallbacks(tk.stack)
            /\ tk.server_id \notin DOMAIN active_connections
            /\ servers[tk.server_id].session # tk.stack

\* C5: connect_server on a server whose status is connected returns True at
\* once, opens no exit stack, and leaves the session, the registry entry and
\* active_connections as they were.
C5_ConnectIdempotent ==
    [][\A id \in server_ids : \A tk \in BagToSet(tasks') :
        (Called("connect", id, tk) /\ servers[id].status = "connected") =>
            /\ tk.pc = "done" /\ tk.ret = "True"
            /\ UNCHANGED <<stacks, active_connections, servers>>]_vars

\* C6: while two connect_server calls for one id are in flight, at most one
\* exit stack with an open transport exists for that id.
C6_OneTransportPerId ==
    \A tk1, tk2 \in InFlight("connect") :
        (tk1 # tk2 /\ tk1.server_id = tk2.server_id) =>
            Cardinality(OpenStacks(tk1.server_id)) <= 1

\* C7: connect_server with an id that is not in the registry returns False
\* in the same step and changes nothing: registry, active_connections and
\* exit stacks are as before and no event is triggered.
C7_ConnectUnknownNoOp ==
    [][\A id \in AllIds \ server_ids : \A tk \in BagToSet(tasks') :
        Called("connect", id, tk) =>
            /\ tk.pc = "done" /\ tk.ret = "False"
            /\ UNCHANGED <<server_ids, config_file, servers, active_connections,
                           stacks, tool_call_history>>
            /\ emitted' = <<>>]_vars

\* C7 happens: a connect_server for an unregistered id has just returned
\* False from its call, without an event.
C7_Witness ==
    \E tk \in Returned("connect") :
        /\ tk.from = "call" /\ tk.ret = "False"
        /\ tk.server_id \notin server_ids
        /\ emitted = <<>>

\* C8: when disconnect_server returns for a known id, the server is
\* disconnected with no tools and no timestamp, active_connections has no
\* entry for it and a server_disconnected event was triggered.
C8_DisconnectPost ==
    \A tk \in Returned("disconnect") :
        tk.server_id \in server_ids =>
            /\ servers[tk.server_id].status = "disconnected"
            /\ servers[tk.server_id].available_tools = <<>>
            /\ servers[tk.server_id].connected_at = "None"
            /\ tk.server_id \notin DOMAIN active_connections
            /\ Len(emitted) = 1
            /\ emitted[1].type = "server_disconnected"
            /\ emitted[1].server_id = tk.server_id

\* C9: disconnect_server on an id with no connection stored (an unknown id,
\* a server never connected or already disconnected) returns at once and
\* leaves registry, active_connections and history unchanged; and, with
\* nothing else in flight, a disconnect_server called right after a
\* disconnect_server of the same id returned changes nothing any more.
C9_DisconnectIdempotent ==
    [][\A id \in AllIds : \A tk \in BagToSet(tasks') :
        LET nothing == /\ tk.pc = "done"
                       /\ UNCHANGED <<server_ids, servers, active_connections,
                                      stacks, tool_call_history>>
                       /\ emitted' = <<>>
        IN
        /\ (Called("disconnect", id, tk) /\ id \notin DOMAIN active_connections) => nothing
        /\ (Called("disconnect", id, tk)
               /\ BagToSet(Suspended) = {}
               /\ (\E u \in Returned("disconnect") : u.server_id = id))
            => nothing]_vars

\* C10: call_tool on an unknown id, or on a server that is not connected or
\* has no session, returns an error result in the same step: no remote call,
\* no exit stack, no history entry, no event, registry unchanged.
C10_CallToolRejects ==
    [][\A id \in AllIds : \A tk \in BagToSet(tasks') :
        (Called("call_tool", id, tk)
            /\ (id \notin server_ids \/ servers[id].status # "connected"
                   \/ servers[id].session = 0)) =>
            /\ tk.pc = "done"
            /\ tk.ret =
                  IF id \notin server_ids THEN "error: not found" ELSE "error: not connected"
            /\ UNCHANGED <<server_ids, servers, active_connections, stacks,
                           tool_call_history>>
            /\ emitted' = <<>>]_vars

\* C10 happens: a call_tool on a registered server that is not connected has
\* just been refused.
C10_Witness ==
    \E tk \in Returned("call_tool") :
        /\ tk.from = "call" /\ tk.ret = "error: not connected"
        /\ tk.server_id \in server_ids
        /\ servers[tk.server_id].status # "connected"

\* This step is a call of call_tool(id, ...) that passes both precondition
\* checks, and tk is its coroutine after the step.
Accepted(id, tk) ==
    /\ Called("call_tool", id, tk)
    /\ id \in server_ids
    /\ servers[id].status = "connected" /\ servers[id].session # 0

\* C11: a call_tool that passes the precondition appends its record with
\* status executing and triggers tool_call_start with it in the step that
\* issues the remote call, and the record stays executing for as long as the
\* remote call has not returned.
C11_RecordBeforeRemoteCall ==
    [][/\ \A id \in AllIds : \A tk \in BagToSet(tasks') :
            Accepted(id, tk) =>
                /\ tk.pc = "remote"
                /\ tk.rec = Len(tool_call_history) + 1
                /\ Len(tool_call_history') = Len(tool_call_history) + 1
                /\ tool_call_history'[tk.rec].server_id = id
                /\ tool_call_history'[tk.rec].status = "executing"
                /\ emitted' = <<Event("tool_call_start", id, <<>>, "-", tk.rec, "executing")>>
       /\ \A tk \in BagToSet(tasks') :
            (tk.op = "call_tool" /\ tk.pc = "remote") =>
                /\ tk.rec \in 1..Len(tool_call_history')
                /\ tool_call_history'[tk.rec].status = "executing"]_vars

\* C11 happens: a call_tool has just suspended in its remote call, with its
\* record in the history and tool_call_start triggered.
C11_Witness ==
    \E tk \in InFlight("call_tool") :
        /\ tk.pc = "remote"
        /\ tool_call_history[tk.rec].status = "executing"
        /\ Len(emitted) = 1 /\ emitted[1].type = "tool_call_start"

\* C12: when the remote call returns in time, the record of the call is
\* completed with a result and a duration, the step triggers exactly one
\* event, tool_call_complete for that record, and call_tool returns success
\* with the result and duration of the record.
C12_CallToolSuccess ==
    \A tk \in Returned("call_tool") :
        (tk.from = "remote" /\ tk.out = "ok") =>
            /\ tool_call_history[tk.rec].status = "completed"
            /\ tool_call_history[tk.rec].result # "None"
            /\ tool_call_history[tk.rec].duration # "None"
            /\ emitted = <<Event("tool_call_complete", tk.server_id, <<>>, "-", tk.rec, "completed")>>
            /\ tk.ret = "success"
            /\ tk.result = tool_call_history[tk.rec].result
            /\ tk.duration = tool_call_history[tk.rec].duration

\* C12 happens: a remote call has just returned in time.
C12_Witness ==
    \E tk \in Returned("call_tool") :
        /\ tk.from = "remote" /\ tk.out = "ok"
        /\ tool_call_history[tk.rec].status = "completed"

\* C13: when the remote call times out, the record is failed, its error is
\* the message with the timeout of the call, its duration is that timeout,
\* the step triggers exactly one event, tool_call_error for that record, and
\* call_tool returns failure with that error.
C13_CallToolTimeout ==
    \A tk \in Returned("call_tool") :
        (tk.from = "remote" /\ tk.out = "timeout") =>
            /\ tool_call_history[tk.rec].status = "failed"
            /\ tool_call_history[tk.rec].error = TimeoutMessage(tk.timeout)
            /\ tool_call_history[tk.rec].duration = tk.timeout
            /\ emitted = <<Event("tool_call_error", tk.server_id, <<>>, "-", tk.rec, "failed")>>
            /\ tk.ret = "failure"
            /\ tk.error = tool_call_history[tk.rec].error

\* C13 happens: remote calls with both timeouts have timed out.
C13_Witness ==
    /\ \E tk \in Returned("call_tool") : tk.from = "remote" /\ tk.out = "timeout"
    /\ \E i, j \in 1..Len(tool_call_history) :
          /\ tool_call_history[i].duration = "30.0"
          /\ tool_call_history[j].duration = "60.0"

\* C14: when the remote call raises an exception that is not a timeout, the
\* record is failed with the text of the exception as error, the step
\* triggers exactly one event, tool_call_error for that record, and call_tool
\* returns failure with that error and does not raise.
C14_CallToolException ==
    \A tk \in Returned("call_tool") :
        (tk.from = "remote" /\ tk.out = "exception") =>
            /\ tool_call_history[tk.rec].status = "failed"
            /\ tool_call_history[tk.rec].error = "exception"
            /\ emitted = <<Event("tool_call_error", tk.server_id, <<>>, "-", tk.rec, "failed")>>
            /\ tk.ret = "failure"
            /\ tk.error = tool_call_history[tk.rec].error

\* C14 happens: a remote call has just raised.
C14_Witness ==
    \E tk \in Returned("call_tool") :
        /\ tk.from = "remote" /\ tk.out = "exception"
        /\ tool_call_history[tk.rec].status = "failed"

C20_FailuresContained ==
    /\ \A tk \in Returned("connect") :
          /\ tk.ret \in {"True", "False"}
          /\ (tk.from = "aclose" \/ tk.msg # "-") => tk.ret = "False"
    /\ \A tk \in Returned("call_tool") :
          /\ tk.ret # "raised"
          /\ (tk.from = "remote" /\ tk.out \in {"timeout", "exception"}) =>
                (tk.ret = "failure" /\ tk.error # "-")

\* C20 happens: the cleanup of a failed connect_server has just raised, and
\* the call returned False.
C20_Witness ==
    \E tk \in Returned("connect") :
        /\ tk.from = "aclose" /\ tk.out = "raise"
        /\ tk.ret = "False"


\* C16: for every event an operation hands to _trigger_event, every callback
\* registered for its type is called, in the order of registration and
\* whatever the callbacks before it did, one error is logged for each
\* callback that raised, and no exception reaches the operation.
C16_HandlerFailureIsolated ==
    \A k \in 1..Len(emitted) :
        LET run == TriggerEvent(emitted[k].type)
            callbacks == IF emitted[k].type \in DOMAIN event_callbacks
                         THEN event_callbacks[emitted[k].type] ELSE <<>>
        IN /\ run.invoked = [i \in 1..Len(callbacks) |-> i]
           /\ run.logged = Cardinality({i \in 1..Len(callbacks) : callbacks[i] = "raises"})
           /\ ~run.raised

\* C16 happens: an operation has triggered an event of a type whose first
\* callback raises and whose second callback is called all the same.
C16_Witness ==
    \E k \in 1..Len(emitted) :
        /\ emitted[k].type \in DOMAIN event_callbacks
        /\ event_callbacks[emitted[k].type] = <<"raises", "returns">>
        /\ TriggerEvent(emitted[k].type).invoked = <<1, 2>>
        /\ \E tk \in BagToSet(tasks) : tk.op \in {"connect", "call_tool"}


\* The connect_server coroutines for server id among the tasks b.
Attempts(b, id) ==
    BagCardinality([tk \in {x \in DOMAIN b : x.op = "connect" /\ x.server_id = id} |-> b[tk]])

\* C17: the call of auto_connect_servers creates one connect_server task for
\* every server with enabled and auto_connect set and none for any other
\* server, no step creates another one, and a server that is not selected
\* keeps its registry entry, has no exit stack and no entry in
\* active_connections.
C17_AutoConnectSelects ==
    [][\A id \in server_ids :
        LET eligible == servers[id].enabled /\ servers[id].auto_connect IN
        /\ (nops' # nops) => Attempts(tasks', id) = (IF eligible THEN 1 ELSE 0)
        /\ (nops' = nops) => Attempts(tasks', id) <= Attempts(tasks, id)
        /\ Cardinality({k \in 1..Len(stacks') : stacks'[k].server_id = id}) <= 1
        /\ ~eligible =>
              /\ servers'[id] = servers[id]
              /\ id \notin DOMAIN active_connections'
              /\ \A k \in 1..Len(stacks') : stacks'[k].server_id # id]_vars

\* C17 happens: auto_connect_servers has returned with a selected server
\* connected, and a server that is enabled but not marked auto_connect and a
\* disabled server still as they were loaded.
C17_Witness ==
    \E auto \in Returned("auto_connect") :
        /\ \E id \in auto.selected : servers[id].status = "connected"
        /\ \E id \in server_ids \ auto.selected :
              servers[id].enabled /\ servers[id].status = "disconnected"
        /\ \E id \in server_ids \ auto.selected :
              ~servers[id].enabled /\ servers[id].status = "disconnected"

\* C18: a connect attempt of the batch is cancelled only if it is itself
\* still running when the timeout of the gather expires, whatever the other
\* attempts did; and when auto_connect_servers returns, every selected server
\* is connected or has its own error recorded.
C18_AutoConnectIsolation ==
    /\ \A tk \in Returned("connect") :
          tk.ret = "cancelled" =>
              (tk.from = "aclose" \/ (tk.slow /\ tk.from = "list_tools"))
    /\ \A auto \in Returned("auto_connect") : \A id \in auto.selected :
          \/ servers[id].status = "connected" /\ servers[id].session # 0
          \/ servers[id].status = "error" /\ servers[id].last_error # "None"

\* C18 happens: of three selected servers one has hung until the timeout of
\* its await and two have connected, and auto_connect_servers has returned.
C18_Witness ==
    \E auto \in Returned("auto_connect") :
        /\ auto.selected = AutoIds /\ auto.out = "ok"
        /\ \E id \in AutoIds :
              /\ servers[id].status = "error"
              /\ servers[id].last_error = "Connection timeout"
              /\ \A other \in AutoIds \ {id} :
                    /\ servers[other].status = "connected"
                    /\ other \in DOMAIN active_connections
                    /\ HasCallbacks(active_connections[other])

\* C19: when the timeout of the gather expires, every attempt it cancels
\* leaves its server in status error, without an entry in active_connections
\* and without an exit stack that still holds an open context.
C19_DeadlineReleases ==
    \A tk \in Returned("connect") :
        tk.ret = "cancelled" =>
            /\ servers[tk.server_id].status = "error"
            /\ tk.server_id \notin DOMAIN active_connections
            /\ OpenStacks(tk.server_id) = {}

\* The runtime fields of an MCPServer.
RuntimeFields == {"status", "session", "connected_at", "available_tools", "last_error"}

\* This step is a call of the synchronous operation op that returned.
SyncCall(op) == nops' = nops + 1 /\ held'.op = op /\ held'.at = nops'

\* C21: add_server gives the new server an id no registered server has,
\* stores it with the fields of the descriptor and fresh runtime state
\* (disconnected, no session, no tools, no error), writes it to the file, and
\* changes no other server and no connection.
C21_AddServer ==
    [][(SyncCall("add_server") /\ held'.ret # "KeyError") =>
          LET id == held'.ret
              server_config == held'.dict
          IN /\ id \notin server_ids
             /\ server_ids' = server_ids \cup {id}
             /\ \A f \in RuntimeFields : servers'[id][f] = MCPServer[f]
             /\ \A f \in DOMAIN server_config : servers'[id][f] = server_config[f]
             /\ DOMAIN config_file' = server_ids'
             /\ \A f \in DOMAIN server_config : config_file'[id][f] = server_config[f]
             /\ \A other \in server_ids : servers'[other] = servers[other]
             /\ UNCHANGED <<active_connections, stacks, tool_call_history>>]_vars

\* C21 witness: a server was added next to a connected one.
C21_Witness ==
    /\ held.op = "add_server" /\ held.at = nops
    /\ held.ret \in server_ids
    /\ servers[held.ret].name = "B"
    /\ \E other \in server_ids \ {held.ret} : servers[other].status = "connected"

\* add_server has just returned the id of the server it stored.
Added == held.op = "add_server" /\ held.at = nops /\ held.ret \in server_ids

\* The listing has an entry for the added id with every field of the descriptor.
Listed ==
    /\ held.ret \in DOMAIN GetAllServers
    /\ \A f \in DOMAIN held.dict :
          /\ f \in DOMAIN GetAllServers[held.ret]
          /\ GetAllServers[held.ret][f] = held.dict[f]

\* A manager that loads the file has the ids and the configuration fields of
\* this one.
Reloaded ==
    /\ DOMAIN LoadConfig(config_file) = server_ids
    /\ \A id \in server_ids, f \in ConfigFields :
          LoadConfig(config_file)[id][f] = servers[id][f]

\* C22: once add_server has returned, the listing of the servers has an entry
\* with the fields of the descriptor, and a manager that loads the saved file
\* has the same ids with the same configuration fields.
C22_RoundTrip == Added => (Listed /\ Reloaded)

\* C23: update_server on a registered id returns True, sets exactly the
\* configuration fields the descriptor has, and keeps the other configuration
\* fields, the runtime state of the server, every other server and the
\* connections; on an unknown id it returns False and changes neither the
\* registry nor the file.
C23_UpdateServer ==
    [][SyncCall("update_server") =>
          LET id == held'.server_id
              server_config == held'.dict
          IN IF id \in server_ids
             THEN /\ held'.ret = "True"
                  /\ \A f \in ConfigFields :
                        servers'[id][f] = IF f \in DOMAIN server_config
                                          THEN server_config[f] ELSE servers[id][f]
                  /\ \A f \in RuntimeFields : servers'[id][f] = servers[id][f]
                  /\ \A other \in server_ids \ {id} : servers'[other] = servers[other]
                  /\ UNCHANGED <<server_ids, active_connections, stacks>>
             ELSE /\ held'.ret = "False"
                  /\ UNCHANGED <<server_ids, servers, config_file, active_connections,
                                 stacks>>]_vars

\* C23 witness: a connected server with tools was renamed.
C23_Witness ==
    /\ held.op = "update_server" /\ held.at = nops
    /\ held.ret = "True"
    /\ servers[held.server_id].name = "N"
    /\ servers[held.server_id].status = "connected"
    /\ servers[held.server_id].available_tools # <<>>

\* The server object of id has a session whose exit stack is still open.
LiveSession(id) ==
    /\ servers[id].session # 0
    /\ HasCallbacks(servers[id].session)

\* C24: no server that remove_server has deleted from the registry has an open
\* session: the session is torn down before the entry is deleted.
C24_TeardownBeforeDelete ==
    \A id \in (DOMAIN servers) \ server_ids : ~LiveSession(id)

\* The tools cached on the server object of id.
CachedTools(id) ==
    {servers[id].available_tools[k] : k \in 1..Len(servers[id].available_tools)}

\* C25: get_all_tools returns one entry, with the id and the name of the
\* server, for every cached tool of every registered server whose status is
\* connected, and no entry of a server in any other status.
C25_GetAllTools ==
    [][SyncCall("get_all_tools") =>
          /\ \A e \in held'.ret :
                /\ e.server_id \in server_ids
                /\ servers[e.server_id].status = "connected"
                /\ e.server_name = servers[e.server_id].name
                /\ e.tool_name \in CachedTools(e.server_id)
          /\ \A id \in server_ids :
                servers[id].status = "connected" =>
                   \A tool \in CachedTools(id) :
                      [server_id |-> id, server_name |-> servers[id].name,
                       tool_name |-> tool] \in held'.ret]_vars

\* C25 witness: get_all_tools returned nothing while a server in status error
\* still had tools cached.
C25_Witness ==
    /\ held.op = "get_all_tools" /\ held.at = nops
    /\ held.ret = {}
    /\ \E id \in server_ids :
          servers[id].status = "error" /\ servers[id].available_tools # <<>>

\* This step is run by a call_tool coroutine: its call or its return.
CallToolStep ==
    \E tk \in BagToSet(tasks') :
        /\ tk.op = "call_tool"
        /\ CopiesIn(tk, tasks') > CopiesIn(tk, Suspended)

\* C26: no step of call_tool, and so no call that is rejected, times out or
\* fails remotely, changes the status, session, connected_at or cached tools
\* of any server, the registry or the connections.
C26_CallToolKeepsConnectivity ==
    [][CallToolStep => UNCHANGED <<servers, server_ids, active_connections, stacks>>]_vars

\* C26 witness: a remote call has just failed or timed out on a server that
\* is still connected with its session.
C26_Witness ==
    \E tk \in Returned("call_tool") :
        /\ tk.from = "remote" /\ tk.ret = "failure"
        /\ servers[tk.server_id].status = "connected"
        /\ servers[tk.server_id].session # 0
        /\ servers[tk.server_id].connected_at # "None"

\* C27: when the caller changes a value of the dict get_server_status
\* returned, its env_vars or its available_tools, no server of the registry
\* changes.
C27_SnapshotsNotReferences ==
    [][(held.op = "get_server_status" /\ held'.op = "write") => UNCHANGED servers]_vars

\* C28: a connect_server called with timeout 30 is never still waiting for a
\* stage later than 30 seconds after its call: the timeouts of the session,
\* initialize and list_tools stages lie within the timeout of the call.
C28_StagesWithinTimeout ==
    \A tk \in InFlight("connect") : Elapsed(tk) <= TransportTimeout

\* C30: no disconnect_server is closing the exit stack of an id while a
\* connect_server of that id is in flight, or while a remote call of
\* call_tool on that id is in flight.
C30_SameIdSerialized ==
    \A d \in InFlight("disconnect") :
        d.pc = "aclose" =>
            /\ ~\E c \in InFlight("connect") : c.server_id = d.server_id
            /\ ~\E t \in InFlight("call_tool") :
                    t.server_id = d.server_id /\ t.pc = "remote"

\* An operation on another server than id is suspended waiting for its
\* subprocess.
OtherBlocked(id) ==
    \E other \in BagToSet(Suspended) :
        /\ other.server_id # id
        /\ \/ other.op = "connect" /\ other.pc \in {"transport", "session", "initialize", "list_tools"}
           \/ other.op = "call_tool" /\ other.pc = "remote"

\* The remote call of tk returns its content and call_tool returns success,
\* and no other coroutine moves.
Completes(tk) ==
    /\ CallToolFinish(tk)
    /\ \E d \in BagToSet(tasks') : d = [tk EXCEPT !.pc = "done", !.from = "remote",
                                                  !.out = "ok", !.ret = "success",
                                                  !.result = "content",
                                                  !.duration = "elapsed"]
    /\ \A other \in BagToSet(Suspended) \ {tk} : CopiesIn(other, tasks') = CopiesIn(other, Suspended)

\* call_tool on id is called and sends its remote call.
Starts(id) ==
    \E tool \in ToolNames, timeout \in Timeouts :
        /\ CallToolCall(id, tool, timeout)
        /\ \E tk \in BagToSet(tasks') : Called("call_tool", id, tk) /\ tk.pc = "remote"

C31_StatusStateMachine ==
    [][\A id \in server_ids :
          /\ (servers'[id].status = "connected" /\ servers[id].status # "connected")
                => servers[id].status = "connecting"
          /\ (servers'[id].status = "connecting")
                => servers[id].status \in {"disconnected", "error"}]_vars

\* C32: a registered server whose status is connected or disconnected has no
\* last_error.
C32_LastErrorOnlyInError ==
    \A id \in server_ids :
        servers[id].status \in {"connected", "disconnected"} => servers[id].last_error = "None"

\* C33: when the status of a server leaves connected, the exit stack of its
\* session has been closed by then.
C33_ReleasedBeforeLeavingConnected ==
    [][\A id \in server_ids :
          (servers[id].status = "connected" /\ servers'[id].status # "connected")
             => stacks'[servers[id].session].state \notin {"transport", "session"}]_vars

\* A connect_server suspended at a stage leaves it in this step with the
\* message of a timeout stored on its server.
TimesOut(tk) ==
    /\ tk.op = "connect" /\ tk.pc \in ConnectStages
    /\ CopiesIn(tk, tasks') < CopiesIn(tk, Suspended)
    /\ servers'[tk.server_id].status = "error"
    /\ servers'[tk.server_id].last_error = FailMsg("timeout")

\* C34: the message of a connect_server that timed out names the timeout of
\* the stage that expired.
C34_TimeoutNamesStage ==
    [][\A tk \in BagToSet(Suspended) :
          TimesOut(tk) => MessageTimeout = StageTimeout(tk.pc)]_vars

\* C37: the exit stack a failed connect_server closes in its cleanup is the
\* one this attempt opened.
C37_ClosesOwnStack ==
    \A tk \in InFlight("connect") : tk.pc = "aclose" => tk.closing = tk.stack

\* C38: a registered server whose status is connected has a session and an
\* entry in active_connections.
C38_ConnectedCanDisconnect ==
    \A id \in server_ids :
        servers[id].status = "connected" =>
            /\ servers[id].session # 0
            /\ id \in DOMAIN active_connections

\* The i-th record of the history exists and has the given status.
RecordIs(i, statuses) ==
    i <= Len(tool_call_history) /\ tool_call_history[i].status \in statuses

\* C35: every record of the history with status executing eventually has
\* status completed or failed.
C35_RecordsFinalized ==
    \A i \in 1..MaxOps :
        RecordIs(i, {"executing"}) ~> RecordIs(i, {"completed", "failed"})

\* C35 witness: two calls were recorded and both records are final, one
\* completed and one failed.
C35_Witness ==
    /\ RecordIs(1, {"completed", "failed"})
    /\ RecordIs(2, {"completed", "failed"})
    /\ tool_call_history[1].status # tool_call_history[2].status

\* C36: a record with status completed or failed is never changed again, and
\* the status of a record changes only from executing.
C36_TerminalRecordsFrozen ==
    [][\A i \in 1..Len(tool_call_history) :
          /\ i <= Len(tool_call_history')
          /\ RecordIs(i, {"completed", "failed"})
                => tool_call_history'[i] = tool_call_history[i]
          /\ tool_call_history'[i].status # tool_call_history[i].status
                => RecordIs(i, {"executing"})]_vars

\* C36 witness: a call has just returned while the record of an earlier call
\* was already final.
C36_Witness ==
    \E tk \in Returned("call_tool") :
        /\ tk.from = "remote"
        /\ \E i \in 1..Len(tool_call_history) :
              i # tk.rec /\ RecordIs(i, {"completed", "failed"})
\* C39: StrandsMCPAgent.connect_server on an id that has a client returns True
\* and leaves mcp_clients, connected_servers and the rest of the state as they
\* were; StrandsMCPAgent.disconnect_server on an id without a client, known or
\* not, returns True and changes nothing either.
C39_AgentIdempotent ==
    [][LET again == SyncCall("agent.connect_server")
                        /\ held'.server_id \in agent.mcp_clients
           absent == SyncCall("agent.disconnect_server")
                        /\ held'.server_id \notin agent.mcp_clients
       IN (again \/ absent) =>
            /\ held'.ret = "True"
            /\ agent' = agent
            /\ UNCHANGED <<server_ids, config_file, servers, active_connections, stacks>>]_vars

\* C39: connect_server returned True for an id whose status still carries the
\* name the server had before it was renamed, so no client was made by this
\* call.
C39_Witness ==
    /\ held.op = "agent.connect_server" /\ held.ret = "True" /\ held.at = nops
    /\ held.server_id \in agent.mcp_clients
    /\ agent.connected_servers[held.server_id].name
         # agent.mcp_servers[held.server_id].name

\* C40: after every add, update and remove through the routes, the ids the
\* agent has a configuration for, which are those get_server_status() lists as
\* known and those connect_server does not refuse as unknown, are the enabled
\* ids of the persisted configuration; a removed id is not among them.
C40_AgentKnowsEnabledIds ==
    LET enabled == {id \in DOMAIN config_file : config_file[id].enabled}
    IN /\ DOMAIN agent.mcp_servers = enabled
       /\ AgentServers = enabled

====
